---- MODULE Spec2Model ----
(***************************************************************************)
(* Open-addressing hash table with double hashing (HashTable<int,int>).    *)
(* The table with growth and deletion repair is src/unnamed/part_000.      *)
(* Keys are non-negative ints, for which std::hash<int> is the identity    *)
(* (libstdc++ / libc++); the driver draws keys from 1..1000000.            *)
(***************************************************************************)
EXTENDS Integers, Sequences, FiniteSets, TLC

\* ------------------------------------------------------------------ bounds
\* Number of keys of KeyPool the operations draw their key from.
NumKeys == 4
\* Number of keys of KeyPool the insert-only runs draw their key from.
NumGrowKeys == 5
\* Number of keys of AbsentPool that are looked up and removed, never inserted.
NumAbsent == 1
\* Number of distinct values the operations draw their value from.
NumVals == 2
\* Inserts that would grow the table beyond this capacity are not taken.
MaxCap == 20

\* Capacities up to this one are probed as constructed capacities.
MaxSmallCap == 12
\* Number of doublings of an initial capacity whose result is probed.
MaxDoublings == 14
\* Number of probe counts i probed at each end of 0..size-1.
EdgeProbes == 3

\* ------------------------------------------------------- program constants
DEFAULT_SIZE == 10

\* Keys offered to the operations.  3, 13 and 48 share the probe cycle
\* {3, 8} at capacity 10; 1 and 7 share slot 1 at capacity 3.
KeyPool == <<3, 13, 48, 1, 7, 2, 4, 93>>
Keys == {KeyPool[n] : n \in 1..NumKeys}
GrowKeys == {KeyPool[n] : n \in 1..NumGrowKeys}
\* Keys passed to retrieve and remove only.  93 probes slots 3, 8 at capacity
\* 10 and starts at slot 1 at capacity 4, as stored keys do.
AbsentPool == <<93, 23, 5>>
AbsentKeys == {AbsentPool[n] : n \in 1..NumAbsent}
Vals == 1..NumVals
\* Capacities a table is constructed with: HashTable(int s = DEFAULT_SIZE).
InitCaps == {4, DEFAULT_SIZE}
\* Capacities the insert-only runs start from.
GrowCaps == {2, 3, 4, DEFAULT_SIZE}

VARIABLES
    size,       \* int size
    table,      \* vector<pair<K,V>> table, indexed 0..size-1
    occupied,   \* vector<bool> occupied, indexed 0..size-1
    count,      \* int count
    lastOp,     \* the last call made on the table and its outcome
    pc,         \* position inside remove ("idle" between calls)
    j,          \* loop variable j of remove's rehash loop
    cap0,       \* the capacity the table was constructed with
    inserted,   \* insert-only runs: the value each key was inserted with
    probe       \* a call of doubleHash: its arguments, size and result

vars == <<size, table, occupied, count, lastOp, pc, j, cap0, inserted, probe>>

\* The object's fields as one value.
This == [size |-> size, table |-> table, occupied |-> occupied, count |-> count]

\* pair<K,V>
Pair(k, v) == [first |-> k, second |-> v]

\* vector<pair<K,V>>(s) value-initialises every pair to (0,0);
\* vector<bool>(s, false).
HashTable(s) ==
    [size |-> s,
     table |-> [x \in 0..(s - 1) |-> Pair(0, 0)],
     occupied |-> [x \in 0..(s - 1) |-> FALSE],
     count |-> 0]

\* std::hash<int>{}(key) for key >= 0.
StdHash(key) == key

hash1(key, sz) == StdHash(key) % sz

hash2(key, sz) == 1 + (StdHash(key) % (sz - 1))

\* x | 1
Or1(x) == IF x % 2 = 0 THEN x + 1 ELSE x

\* int is 32 bits wide: INT_MAX, and 2^16 to split a 32-bit word in halves.
INT_MAX == 2147483647
Half == 65536

\* a * b modulo 2^32 as <<high half, low half>>, for 0 <= a, b <= INT_MAX,
\* from products of parts of a and b that stay below 2^31.
Mul32(a, b) ==
    LET a1 == a \div Half
        a0 == a % Half
        b1 == b \div Half
        b0 == b % Half
        t == (a0 \div 256) * b0
        u == (a0 % 256) * b0
        loSum == (t % 256) * 256 + (u % Half)
        hiLow == (t \div 256) + (u \div Half) + (loSum \div Half)
    IN <<(hiLow + ((a1 * b0) % Half) + ((a0 * b1) % Half)) % Half,
         loSum % Half>>

\* The int a 32-bit word is read as (two's complement).
ToInt(x) ==
    IF x[1] >= Half \div 2
    THEN (x[1] - Half) * Half + x[2]
    ELSE x[1] * Half + x[2]

\* a * b in int where the product wraps around, for a, b >= 0.
WrapMul(a, b) == ToInt(Mul32(a, b))

\* a + b in int where the sum wraps around, for a >= 0.
WrapAdd(a, b) ==
    IF b > INT_MAX - a
    THEN ((b - INT_MAX) + (a - INT_MAX)) - 2
    ELSE a + b

\* a % n of C++ (the sign of the result is the sign of a), n > 0.
CRem(a, n) ==
    IF a >= 0 \/ a % n = 0 THEN a % n ELSE (a % n) - n

\* (a * b) mod m for a, b < m < 2^22, from products that stay below 2^31.
MulMod(a, b, m) ==
    (((a * (b \div 512)) % m) * 512 + a * (b % 512)) % m

\* h1 + i * (h2 | 1) exceeds INT_MAX: signed overflow.
Overflows(key, i, sz) ==
    i > (INT_MAX - hash1(key, sz)) \div Or1(hash2(key, sz))

\* doubleHash(key, i) at size sz.  Where the int arithmetic overflows, the
\* value a two's complement machine computes.
doubleHash(key, i, sz) ==
    IF Overflows(key, i, sz)
    THEN CRem(WrapAdd(hash1(key, sz), WrapMul(i, Or1(hash2(key, sz)))), sz)
    ELSE (hash1(key, sz) + i * Or1(hash2(key, sz))) % sz

\* The values doubleHash can return: signed overflow is undefined, a build
\* either wraps around or computes the index without overflow (wider
\* registers).
doubleHashOutcomes(key, i, sz) ==
    IF Overflows(key, i, sz)
    THEN {doubleHash(key, i, sz),
          (hash1(key, sz) + MulMod(i % sz, Or1(hash2(key, sz)) % sz, sz)) % sz}
    ELSE {doubleHash(key, i, sz)}

\* static_cast<double>(count) / size > 0.75
LoadExceeded(t) == 4 * t.count > 3 * t.size

\* InsertProbe, but a slot that already holds the key keeps its old value.
RECURSIVE InsertProbeKeepsValue(_, _, _, _)
InsertProbeKeepsValue(t, key, value, i) ==
    IF i >= t.size
    THEN [t |-> t, err |-> "full"]
    ELSE LET index == doubleHash(key, i, t.size) IN
         IF ~t.occupied[index]
         THEN [t |-> [t EXCEPT !.table[index] = Pair(key, value),
                              !.occupied[index] = TRUE,
                              !.count = @ + 1],
               err |-> "ok"]
         ELSE IF t.table[index].first = key
              THEN [t |-> t, err |-> "ok"]
              ELSE InsertProbeKeepsValue(t, key, value, i + 1)

\* InsertProbe, but count is incremented also when the key is overwritten.
RECURSIVE InsertProbeCountsUpdate(_, _, _, _)
InsertProbeCountsUpdate(t, key, value, i) ==
    IF i >= t.size
    THEN [t |-> t, err |-> "full"]
    ELSE LET index == doubleHash(key, i, t.size) IN
         IF ~t.occupied[index] \/ t.table[index].first = key
         THEN [t |-> [t EXCEPT !.table[index] = Pair(key, value),
                              !.occupied[index] = TRUE,
                              !.count = @ + 1],
               err |-> "ok"]
         ELSE InsertProbeCountsUpdate(t, key, value, i + 1)

\* The probe loop of insert (lines 80-94): the state after it and whether
\* it threw "Hash table is full".
RECURSIVE InsertProbe(_, _, _, _)
InsertProbe(t, key, value, i) ==
    IF i >= t.size
    THEN [t |-> t, err |-> "full"]
    ELSE LET index == doubleHash(key, i, t.size) IN
         IF ~t.occupied[index] \/ t.table[index].first = key
         THEN [t |-> [t EXCEPT !.table[index] = Pair(key, value),
                              !.occupied[index] = TRUE,
                              !.count = IF t.occupied[index] THEN @ ELSE @ + 1],
               err |-> "ok"]
         ELSE InsertProbe(t, key, value, i + 1)

RECURSIVE Insert(_, _, _)
RECURSIVE ResizeLoop(_, _, _)

\* resize, but the table grows by one slot.
resizeByOne(t) ==
    ResizeLoop(HashTable(t.size + 1), t, 0)

\* resize(): doubles size, clears the table, reinserts the old entries in
\* storage order.  An exception of a reinsertion leaves the loop.
resize(t) ==
    ResizeLoop(HashTable(t.size * 2), t, 0)

ResizeLoop(t, old, i) ==
    IF i >= old.size
    THEN [t |-> t, err |-> "ok"]
    ELSE IF old.occupied[i]
         THEN LET r == Insert(t, old.table[i].first, old.table[i].second) IN
              IF r.err # "ok" THEN r ELSE ResizeLoop(r.t, old, i + 1)
         ELSE ResizeLoop(t, old, i + 1)

\* Insert without the load-factor check.
InsertNoGrowth(t, key, value) ==
    InsertProbe(t, key, value, 0)

\* insert(key, value)
Insert(t, key, value) ==
    IF LoadExceeded(t)
    THEN LET r == resize(t) IN
         IF r.err # "ok" THEN r ELSE InsertProbe(r.t, key, value, 0)
    ELSE InsertProbe(t, key, value, 0)

\* retrieve(key): the value, or "Key not found".
RECURSIVE RetrieveProbe(_, _, _)
RetrieveProbe(t, key, i) ==
    IF i >= t.size
    THEN [err |-> "notfound", value |-> 0]
    ELSE LET index == doubleHash(key, i, t.size) IN
         IF ~t.occupied[index]
         THEN [err |-> "notfound", value |-> 0]
         ELSE IF t.table[index].first = key
              THEN [err |-> "ok", value |-> t.table[index].second]
              ELSE RetrieveProbe(t, key, i + 1)

Retrieve(t, key) == RetrieveProbe(t, key, 0)

\* RemoveProbe without the comparison of the stored key with key.
RemoveProbeAnyKey(t, key, i) ==
    IF i >= t.size
    THEN -1
    ELSE LET index == doubleHash(key, i, t.size) IN
         IF ~t.occupied[index] THEN -1 ELSE index

\* The probe loop of remove (lines 117-123, 141): the index of the slot
\* holding key, or -1 when the loop returns without finding it.
RECURSIVE RemoveProbe(_, _, _)
RemoveProbe(t, key, i) ==
    IF i >= t.size
    THEN -1
    ELSE LET index == doubleHash(key, i, t.size) IN
         IF ~t.occupied[index]
         THEN -1
         ELSE IF t.table[index].first = key
              THEN index
              ELSE RemoveProbe(t, key, i + 1)

\* Lines 124-125: the found slot is marked empty.
ClearSlot(t, index) ==
    [t EXCEPT !.occupied[index] = FALSE, !.count = @ - 1]

\* RepairBody without the advance of j.
RepairBodyStuck(t, jj) ==
    LET rehashKey == t.table[jj].first
        rehashValue == t.table[jj].second
        r == Insert([t EXCEPT !.occupied[jj] = FALSE, !.count = @ - 1],
                    rehashKey, rehashValue)
    IN [t |-> r.t, err |-> r.err, j |-> jj]

\* RepairBody without the count-- of line 135.
RepairBodyNoDecrement(t, jj) ==
    LET rehashKey == t.table[jj].first
        rehashValue == t.table[jj].second
        r == Insert([t EXCEPT !.occupied[jj] = FALSE], rehashKey, rehashValue)
    IN [t |-> r.t, err |-> r.err, j |-> (jj + 1) % r.t.size]

\* One iteration of the rehash loop (lines 132-137) at an occupied slot jj:
\* the state after it, the next jj, and whether the reinsertion threw.
RepairBody(t, jj) ==
    LET rehashKey == t.table[jj].first
        rehashValue == t.table[jj].second
        r == Insert(ClearSlot(t, jj), rehashKey, rehashValue)
    IN [t |-> r.t, err |-> r.err, j |-> (jj + 1) % r.t.size]

\* while (occupied[j]) { ... }
\* n counts the iterations made.
RECURSIVE RepairLoop(_, _, _)
RepairLoop(t, jj, n) ==
    IF ~t.occupied[jj]
    THEN [t |-> t, err |-> "ok", n |-> n]
    ELSE LET r == RepairBody(t, jj) IN
         IF r.err # "ok"
         THEN [t |-> r.t, err |-> r.err, n |-> n + 1]
         ELSE RepairLoop(r.t, r.j, n + 1)

\* Remove, but a key that is not found is reported as retrieve reports it.
RemoveThrowsNotFound(t, key) ==
    LET index == RemoveProbe(t, key, 0) IN
    IF index = -1
    THEN [t |-> t, err |-> "notfound", n |-> -1]
    ELSE RepairLoop([t EXCEPT !.occupied[index] = FALSE, !.count = @ - 1],
                    (index + 1) % t.size, 0)

\* remove(key); n is -1 when the key was not found, else the number of
\* iterations of the rehash loop.
Remove(t, key) ==
    LET index == RemoveProbe(t, key, 0) IN
    IF index = -1
    THEN [t |-> t, err |-> "ok", n |-> -1]
    ELSE RepairLoop(ClearSlot(t, index), (index + 1) % t.size, 0)

\* ------------------------------------------------------------ the machine
\* A call and its outcome.  n: for insert 1 when resize() was entered, else
\* 0; for remove as returned by Remove.
Op(op, key, value, res, n) ==
    [op |-> op, key |-> key, value |-> value, res |-> res, n |-> n]

SetThis(t) ==
    /\ size' = t.size
    /\ table' = t.table
    /\ occupied' = t.occupied
    /\ count' = t.count

NoneInserted == [k \in GrowKeys |-> 0]

\* No call of doubleHash is looked at.
NoProbe == [sz |-> 0, key |-> 0, i |-> 0, done |-> FALSE, index |-> 0]

InitWith(caps) ==
    \E s \in caps :
        /\ size = s
        /\ table = HashTable(s).table
        /\ occupied = HashTable(s).occupied
        /\ count = 0
        /\ lastOp = Op("create", 0, 0, "ok", 0)
        /\ pc = "idle"
        /\ j = 0
        /\ cap0 = s
        /\ inserted = NoneInserted
        /\ probe = NoProbe

Init == InitWith(InitCaps)

\* A growth beyond MaxCap is outside the explored part of the state space.
WithinCap(t) == LoadExceeded(t) => 2 * t.size <= MaxCap

DoInsert ==
    \E key \in Keys, value \in Vals :
        /\ pc = "idle"
        /\ WithinCap(This)
        /\ LET r == Insert(This, key, value) IN
           /\ SetThis(r.t)
           /\ lastOp' = Op("insert", key, value, r.err,
                           IF LoadExceeded(This) THEN 1 ELSE 0)
        /\ UNCHANGED <<pc, j, cap0, inserted, probe>>

DoRetrieve ==
    \E key \in Keys \cup AbsentKeys :
        /\ pc = "idle"
        /\ LET r == Retrieve(This, key) IN
           lastOp' = Op("retrieve", key, r.value, r.err, 0)
        /\ UNCHANGED <<size, table, occupied, count, pc, j, cap0, inserted, probe>>

DoRemove ==
    \E key \in Keys \cup AbsentKeys :
        /\ pc = "idle"
        /\ LET r == Remove(This, key) IN
           /\ SetThis(r.t)
           /\ lastOp' = Op("remove", key, 0, r.err, r.n)
        /\ UNCHANGED <<pc, j, cap0, inserted, probe>>

Next == DoInsert \/ DoRetrieve \/ DoRemove

Spec == Init /\ [][Next]_vars

\* ------------------------------------------- insert-only runs, distinct keys
InitGrow == InitWith(GrowCaps)

\* insert of a key that no earlier insert of the run was given.  After an
\* insert that threw, the run is over.
DoInsertNew ==
    \E key \in GrowKeys, value \in Vals :
        /\ pc = "idle"
        /\ lastOp.res = "ok"
        /\ inserted[key] = 0
        /\ WithinCap(This)
        /\ LET r == Insert(This, key, value) IN
           /\ SetThis(r.t)
           /\ lastOp' = Op("insert", key, value, r.err,
                           IF LoadExceeded(This) THEN 1 ELSE 0)
        /\ inserted' = [inserted EXCEPT ![key] = value]
        /\ UNCHANGED <<pc, j, cap0, probe>>

NextGrow == DoInsertNew

SpecGrow == InitGrow /\ [][NextGrow]_vars

\* --------------------------------------- remove, one loop iteration a step
\* remove(key) up to the entry of the rehash loop.
RemoveStart ==
    \E key \in Keys \cup AbsentKeys :
        /\ pc = "idle"
        /\ LET index == RemoveProbe(This, key, 0) IN
           IF index = -1
           THEN /\ lastOp' = Op("remove", key, 0, "ok", -1)
                /\ UNCHANGED <<size, table, occupied, count, pc, j>>
           ELSE /\ SetThis(ClearSlot(This, index))
                /\ pc' = "repair"
                /\ j' = (index + 1) % size
                /\ lastOp' = Op("remove", key, 0, "running", 0)
        /\ UNCHANGED <<cap0, inserted, probe>>

\* The loop test while (occupied[j]) and, when it holds, one iteration.
\* lastOp.n becomes 1 with the first iteration.
RepairIter ==
    /\ pc = "repair"
    /\ IF ~occupied[j]
       THEN /\ pc' = "idle"
            /\ j' = 0
            /\ lastOp' = [lastOp EXCEPT !.res = "ok"]
            /\ UNCHANGED <<size, table, occupied, count>>
       ELSE LET r == RepairBody(This, j) IN
            /\ SetThis(r.t)
            /\ IF r.err # "ok"
               THEN /\ pc' = "idle"
                    /\ j' = 0
                    /\ lastOp' = [lastOp EXCEPT !.res = r.err, !.n = 1]
               ELSE /\ pc' = "repair"
                    /\ j' = r.j
                    /\ lastOp' = [lastOp EXCEPT !.n = 1]
    /\ UNCHANGED <<cap0, inserted, probe>>

NextStep == DoInsert \/ DoRetrieve \/ RemoveStart \/ RepairIter

\* remove runs to completion without yielding: a started loop keeps running.
SpecStep == Init /\ [][NextStep]_vars /\ WF_vars(RepairIter)

\* ------------------------------ the table of src/Hash Table/HashTable.h
\* (no growth, no rehash on remove; insert refuses at half full)
\* Capacities the tables of this variant are constructed with.
CapsB == {3, 4, 5, DEFAULT_SIZE}

\* doubleHash(key, i): the index, or out_of_range.  The step is hash2(key),
\* not forced odd.
doubleHashB(key, i, sz) ==
    LET h1 == hash1(key, sz)
        h2 == hash2(key, sz)
        index == IF i > (INT_MAX - h1) \div h2
                 THEN CRem(WrapAdd(h1, WrapMul(i, h2)), sz)
                 ELSE (h1 + i * h2) % sz
    IN [index |-> index,
        err |-> IF index < 0 \/ index >= sz THEN "range" ELSE "ok"]

\* The probe loop of insert (lines 52-71).
RECURSIVE InsertProbeB(_, _, _, _)
InsertProbeB(t, key, value, i) ==
    IF i >= t.size
    THEN [t |-> t, err |-> "full"]
    ELSE LET d == doubleHashB(key, i, t.size) IN
         IF d.err # "ok"
         THEN [t |-> t, err |-> d.err]
         ELSE IF ~t.occupied[d.index] \/ t.table[d.index].first = key
              THEN [t |-> [t EXCEPT !.table[d.index] = Pair(key, value),
                                   !.occupied[d.index] = TRUE,
                                   !.count = IF t.occupied[d.index]
                                             THEN @ ELSE @ + 1],
                    err |-> "ok"]
              ELSE InsertProbeB(t, key, value, i + 1)

\* InsertB, but a table that is exactly half full still takes an entry.
InsertBAboveHalf(t, key, value) ==
    IF t.count > t.size \div 2
    THEN [t |-> t, err |-> "halffull"]
    ELSE InsertProbeB(t, key, value, 0)

\* insert(key, value): throws "Hash table is more than half full" when
\* count >= size / 2 (int division).
InsertB(t, key, value) ==
    IF t.count >= t.size \div 2
    THEN [t |-> t, err |-> "halffull"]
    ELSE InsertProbeB(t, key, value, 0)

\* retrieve(key)
RECURSIVE RetrieveProbeB(_, _, _)
RetrieveProbeB(t, key, i) ==
    IF i >= t.size
    THEN [err |-> "notfound", value |-> 0]
    ELSE LET d == doubleHashB(key, i, t.size) IN
         IF d.err # "ok"
         THEN [err |-> d.err, value |-> 0]
         ELSE IF ~t.occupied[d.index]
              THEN [err |-> "notfound", value |-> 0]
              ELSE IF t.table[d.index].first = key
                   THEN [err |-> "ok", value |-> t.table[d.index].second]
                   ELSE RetrieveProbeB(t, key, i + 1)

RetrieveB(t, key) == RetrieveProbeB(t, key, 0)

\* remove(key): the found slot is marked empty, nothing is rehashed.
RECURSIVE RemoveProbeB(_, _, _)
RemoveProbeB(t, key, i) ==
    IF i >= t.size
    THEN [t |-> t, err |-> "ok", n |-> -1]
    ELSE LET d == doubleHashB(key, i, t.size) IN
         IF d.err # "ok"
         THEN [t |-> t, err |-> d.err, n |-> -1]
         ELSE IF ~t.occupied[d.index]
              THEN [t |-> t, err |-> "ok", n |-> -1]
              ELSE IF t.table[d.index].first = key
                   THEN [t |-> [t EXCEPT !.occupied[d.index] = FALSE,
                                        !.count = @ - 1],
                         err |-> "ok", n |-> 0]
                   ELSE RemoveProbeB(t, key, i + 1)

RemoveB(t, key) == RemoveProbeB(t, key, 0)

InitB == InitWith(CapsB)

DoInsertB ==
    \E key \in Keys, value \in Vals :
        /\ LET r == InsertB(This, key, value) IN
           /\ SetThis(r.t)
           /\ lastOp' = Op("insert", key, value, r.err, 0)
        /\ UNCHANGED <<pc, j, cap0, inserted, probe>>

DoRetrieveB ==
    \E key \in Keys \cup AbsentKeys :
        /\ LET r == RetrieveB(This, key) IN
           lastOp' = Op("retrieve", key, r.value, r.err, 0)
        /\ UNCHANGED <<size, table, occupied, count, pc, j, cap0, inserted, probe>>

DoRemoveB ==
    \E key \in Keys \cup AbsentKeys :
        /\ LET r == RemoveB(This, key) IN
           /\ SetThis(r.t)
           /\ lastOp' = Op("remove", key, 0, r.err, r.n)
        /\ UNCHANGED <<pc, j, cap0, inserted, probe>>

NextB == DoInsertB \/ DoRetrieveB \/ DoRemoveB

SpecB == InitB /\ [][NextB]_vars

\* ------------------------------------------------- doubleHash on its own
RECURSIVE Doubled(_, _)
Doubled(c, k) == IF k = 0 THEN c ELSE Doubled(2 * c, k - 1)

\* Capacities looked at: constructed ones, and the ones the tables of
\* InitCaps grow to.
HashCaps ==
    (2..MaxSmallCap) \cup {Doubled(c, k) : c \in InitCaps, k \in 0..MaxDoublings}

\* Keys looked at: sz - 2 has the largest step, sz - 1.
HashKeys(sz) == Keys \cup {sz - 2}

\* Probe counts looked at: the first and the last of 0..sz-1.
ProbeCounts(sz) ==
    {i \in 0..EdgeProbes : i < sz} \cup {i \in (sz - 1 - EdgeProbes)..(sz - 1) : i >= 0}

InitHash ==
    /\ \E sz \in HashCaps :
           \E key \in HashKeys(sz), i \in ProbeCounts(sz) :
               probe = [sz |-> sz, key |-> key, i |-> i, done |-> FALSE, index |-> 0]
    /\ size = DEFAULT_SIZE
    /\ table = HashTable(DEFAULT_SIZE).table
    /\ occupied = HashTable(DEFAULT_SIZE).occupied
    /\ count = 0
    /\ lastOp = Op("create", 0, 0, "ok", 0)
    /\ pc = "idle"
    /\ j = 0
    /\ cap0 = DEFAULT_SIZE
    /\ inserted = NoneInserted

\* int index = doubleHash(key, i);
DoDoubleHash ==
    /\ probe.sz > 0
    /\ ~probe.done
    /\ \E index \in doubleHashOutcomes(probe.key, probe.i, probe.sz) :
           probe' = [probe EXCEPT !.done = TRUE, !.index = index]
    /\ UNCHANGED <<size, table, occupied, count, lastOp, pc, j, cap0, inserted>>

NextHash == DoDoubleHash

SpecHash == InitHash /\ [][NextHash]_vars

\* ------------------------------------------------------------- properties
\* The keys retrieve(k) succeeds for.
Retrievable(t) == {k \in Keys : Retrieve(t, k).err = "ok"}

\* C1: remove(B) of a present key B leaves every other key A that was
\* retrievable before the call retrievable with the same value.
C1_RemoveKeepsOtherKeys ==
    [][(lastOp'.op = "remove" /\ Retrieve(This, lastOp'.key).err = "ok")
        => \A a \in Retrievable(This) \ {lastOp'.key} :
               Retrieve(This', a) = Retrieve(This, a)]_vars

\* C2: if retrieve(k) succeeds, then right after remove(k) returns,
\* retrieve(k) fails with "Key not found".
C2_RemoveThenRetrieveFails ==
    [][(lastOp'.op = "remove" /\ lastOp'.res = "ok"
        /\ Retrieve(This, lastOp'.key).err = "ok")
        => Retrieve(This', lastOp'.key).err = "notfound"]_vars

\* C3: getCount() equals the number of distinct keys retrieve succeeds for.
C3_CountIsRetrievable ==
    count = Cardinality(Retrievable(This))

\* C4: after insert(k, v) returned successfully, retrieve(k) returns v.
C4_InsertThenRetrieve ==
    (lastOp.op = "insert" /\ lastOp.res = "ok")
        => Retrieve(This, lastOp.key) = [err |-> "ok", value |-> lastOp.value]

\* C5: insert(k, v1) followed by insert(k, v2), v2 # v1, leaves getCount()
\* as it was after the first insert, and retrieve(k) then returns v2.
C5_UpdateKeepsCount ==
    [][(lastOp.op = "insert" /\ lastOp.res = "ok"
        /\ lastOp'.op = "insert" /\ lastOp'.res = "ok"
        /\ lastOp'.key = lastOp.key /\ lastOp'.value # lastOp.value)
        => /\ count' = count
           /\ Retrieve(This', lastOp'.key)
                  = [err |-> "ok", value |-> lastOp'.value]]_vars

\* The number of inserts of distinct keys into an empty table of capacity c
\* that run without growth: the first insert that finds count/c > 0.75 grows.
FitsWithoutGrowth(c) == ((3 * c) \div 4) + 1

NumInserted == Cardinality({k \in GrowKeys : inserted[k] # 0})

\* C6: in a run of inserts of distinct keys into an empty table, every
\* insert succeeds, every inserted key is retrievable with its value, and
\* once the run is long enough to force a growth, getSize() is larger than
\* the initial capacity.
C6_GrowthKeepsEntries ==
    /\ lastOp.res = "ok"
    /\ \A k \in GrowKeys :
           inserted[k] # 0
               => Retrieve(This, k) = [err |-> "ok", value |-> inserted[k]]
    /\ NumInserted > FitsWithoutGrowth(cap0) => size > cap0

\* C7: in a table created with the default capacity, insert never fails
\* with "Hash table is full".
C7_NeverFull ==
    (cap0 = DEFAULT_SIZE /\ lastOp.op = "insert") => lastOp.res # "full"

\* C4 witness: an insert that grew a table holding four entries and stored
\* its key in the grown table.
C4_Witness ==
    /\ lastOp.op = "insert" /\ lastOp.res = "ok" /\ lastOp.n = 1
    /\ size = 2 * cap0
    /\ count >= 4

\* C8: remove(k) of a never-inserted key k returns without error and leaves
\* size, count and every slot (occupied flag, key, value) unchanged.
C8_RemoveAbsentIsNoOp ==
    [][(lastOp'.op = "remove" /\ lastOp'.key \in AbsentKeys)
        => /\ lastOp'.res = "ok"
           /\ UNCHANGED <<size, table, occupied, count>>]_vars

\* C8 witness: a never-inserted key was removed from a table in which the
\* first slot of its probe sequence is occupied.
C8_Witness ==
    /\ lastOp.op = "remove" /\ lastOp.key \in AbsentKeys
    /\ occupied[doubleHash(lastOp.key, 0, size)]
    /\ count >= 2

\* C9: remove never raises an error; the reinsertions of the rehash loop
\* never fail with "Hash table is full".
C9_RemoveNeverThrows ==
    lastOp.op = "remove" => lastOp.res = "ok"

\* C9 witness: a remove whose rehash loop reinserted two entries or more.
C9_Witness ==
    lastOp.op = "remove" /\ lastOp.res = "ok" /\ lastOp.n >= 2

\* C10: the rehash loop of remove, once entered, reaches an empty slot and
\* remove returns.
C10_RepairTerminates ==
    (pc = "repair") ~> (pc = "idle")

\* C10 witness: the rehash loop has made an iteration and is about to make
\* another in a table whose only empty slot is the one a key was removed or
\* moved from.
C10_Witness ==
    pc = "repair" /\ lastOp.n = 1 /\ occupied[j] /\ count = size - 1

\* C11 (as claimed): after every successful insert count/size <= 0.75.
C11_LoadAtMostThreeQuarters ==
    (lastOp.op = "insert" /\ lastOp.res = "ok") => 4 * count <= 3 * size

\* C11 (amended): an insert called with count/size > 0.75 doubles the table
\* before it places the entry, and after every successful insert
\* (count - 1)/size <= 0.75: the check is made on the count before the
\* entry is placed.
C11_GrowsWhenLoadExceeded ==
    [][(lastOp'.op = "insert" /\ lastOp'.res = "ok")
        => /\ LoadExceeded(This) => size' = 2 * size
           /\ ~LoadExceeded(This) => size' = size
           /\ 4 * (count' - 1) <= 3 * size']_vars

\* C11 witness: a successful insert into a table loaded above 0.75, which
\* grew, and whose load afterwards is above 0.5.
C11_Witness ==
    /\ lastOp.op = "insert" /\ lastOp.res = "ok" /\ lastOp.n = 1
    /\ 2 * size = 4 * cap0 /\ 2 * count >= cap0

\* Some occupied slot holds key.
Stored(t, key) ==
    \E x \in 0..(t.size - 1) : t.occupied[x] /\ t.table[x].first = key

\* C12: a successful insert(k, v) of a key that is not stored in the table
\* increases getCount() by exactly 1, with or without growth.
C12_NewKeyAddsOne ==
    [][(lastOp'.op = "insert" /\ lastOp'.res = "ok"
        /\ ~Stored(This, lastOp'.key))
        => count' = count + 1]_vars

\* C14: between calls, also after an insert that failed, 0 <= count <= size
\* and count is the number of slots whose occupied flag is set.
C14_CountIsOccupied ==
    /\ 0 <= count /\ count <= size
    /\ count = Cardinality({x \in 0..(size - 1) : occupied[x]})

\* C14 witness: an insert failed with "Hash table is full" in a table that
\* holds three entries or more.
C14_Witness ==
    lastOp.op = "insert" /\ lastOp.res = "full" /\ count >= 3

\* C16: one insert leaves size as it is or doubles it, and no operation
\* makes size smaller.
C16_SizeSameOrDoubled ==
    [][/\ size' >= size
       /\ lastOp'.op = "insert" => (size' = size \/ size' = 2 * size)
       /\ lastOp'.op # "insert" => size' = size]_vars

\* C16 witness: an insert doubled a table of the default or of capacity 4
\* and reinserted entries without a second growth.
C16_Witness ==
    /\ lastOp.op = "insert" /\ lastOp.n = 1
    /\ size = 2 * cap0 /\ count >= 2 /\ count <= cap0

\* C18: no two occupied slots hold the same key.
C18_KeysStoredOnce ==
    \A x, y \in 0..(size - 1) :
        (occupied[x] /\ occupied[y] /\ table[x].first = table[y].first)
            => x = y

\* C19: a successful insert(k, v) leaves the outcome of retrieve(k') as it
\* was for every key k' # k.
C19_InsertKeepsOtherKeys ==
    [][(lastOp'.op = "insert" /\ lastOp'.res = "ok")
        => \A k \in (Keys \cup AbsentKeys) \ {lastOp'.key} :
               Retrieve(This', k) = Retrieve(This, k)]_vars

\* C20: remove never changes size: no reinsertion of the rehash loop finds
\* count/size > 0.75.
C20_RemoveKeepsSize ==
    [][lastOp'.op = "remove" => size' = size]_vars

\* C20 witness: a remove from a table loaded above 0.75 reinserted entries.
C20_Witness ==
    /\ lastOp.op = "remove" /\ lastOp.n >= 1
    /\ 4 * (count + 1) > 3 * size

\* C15: at every capacity >= 2 the probe step (hash2(key) | 1) is not
\* congruent to 0 modulo the capacity.
C15_StepNotZero ==
    probe.done => Or1(hash2(probe.key, probe.sz)) % probe.sz # 0

\* C17: doubleHash(key, i) yields an index in [0, size) for every i in
\* [0, size).
C17_IndexInRange ==
    probe.done => (0 <= probe.index /\ probe.index < probe.sz)

\* C13: in the refuse-at-half-full table, insert called with
\* count >= size / 2 fails with the over-half-full error and changes
\* nothing, also when the key is stored; size never changes and count never
\* exceeds size / 2.
C13_RefusesAtHalfFull ==
    [][/\ size' = size
       /\ count' <= size' \div 2
       /\ (lastOp'.op = "insert" /\ count >= size \div 2)
           => /\ lastOp'.res = "halffull"
              /\ UNCHANGED <<size, table, occupied, count>>]_vars

\* C13 witness: an insert of a key that is stored in the table was refused.
C13_Witness ==
    /\ lastOp.op = "insert" /\ lastOp.res = "halffull"
    /\ Stored(This, lastOp.key)
    /\ count = size \div 2

====
